---------------------------- MODULE Spec2Model ----------------------------
(***************************************************************************)
(* A model of listener.py: a capture thread pushes audio frames into a     *)
(* queue, a recognition thread pops them, feeds a speech recogniser and    *)
(* reports recognised text, a rolling words-per-minute figure and alerts   *)
(* to a GUI callback; the GUI's close handler clears the `running` flag.   *)
(*                                                                         *)
(* Python values are records tagged with their type (`ty`); Python `str`   *)
(* values carry a TLA+ string in `s`.  Confidences are kept in tenths      *)
(* (0.6 is 6), the clock in whole seconds.                                 *)
(***************************************************************************)
EXTENDS Integers, Sequences, FiniteSets, TLC

VARIABLES
    running,                  \* global `running`
    audio_queue,              \* global `audio_queue` (queue.Queue)
    word_timestamp_deque,     \* global `word_timestamp_deque`
    clock,                    \* what time.time() returns, in seconds
    model_exists,             \* os.path.exists(MODEL_PATH)
    rec,                      \* the recogniser: which records it returns in this run
    capPc,                    \* audio_capture_thread: position
    frames_read,              \* audio_capture_thread: frames read so far
    stream_open,              \* audio_capture_thread: the PyAudio stream is open
    recPc,                    \* recognition_thread: position
    data,                     \* recognition_thread: local `data`
    partial_text_accumulator, \* recognition_thread: local
    locals,                   \* recognition_thread: the final branch's locals
    sink,                     \* the calls made to gui_callback, in order
    main_exited,              \* main() has returned (the process has ended)
    pushed,                   \* history: frames put into audio_queue
    delivered,                \* history: frames handed to rec.AcceptWaveform
    recorded,                 \* history: entries appended to the deque
    partials_seen,            \* history: texts parsed in the partial branch
    last_fed,                 \* history: the record the recogniser returned for `data`
    call                      \* a single call of a utility function (SpecFn)

vars == <<running, audio_queue, word_timestamp_deque, clock, model_exists, rec,
          capPc, frames_read, stream_open, recPc, data,
          partial_text_accumulator, locals, sink, main_exited,
          pushed, delivered, recorded, partials_seen, last_fed, call>>

-----------------------------------------------------------------------------
(* Configuration (listener.py, lines 17-28) *)

ROLLING_WINDOW_SIZE == 10

WORDS_PER_MINUTE_THRESHOLD == 180

STAMMER_REPEAT_THRESHOLD == 2

\* 0.6, in tenths
GARBLED_CONFIDENCE_THRESHOLD == 6

(* Bounds of the model *)

\* frames the capture thread reads
MaxFrames == 3

\* clock advances
MaxTicks == 3

\* seconds per clock advance
TickSeconds == 5

\* words of a list given to analyze_stammering_and_articulation (SpecFn)
MaxWords == 5

\* items of a "result" list given to parse_vosk_json (SpecFn)
MaxItems == 2

-----------------------------------------------------------------------------
(* Python and JSON values *)

PyStr(s) == [ty |-> "str", s |-> s]

\* an int, with its str() rendering
PyInt(s) == [ty |-> "int", s |-> s]

PyNone == [ty |-> "NoneType", s |-> "None"]

\* a float, in tenths
PyFloat(n) == [ty |-> "float", n |-> n]

\* a key a dict does not have
Absent == [ty |-> "absent"]

\* one element of a final record's "result" list
Item(w, c) == [ty |-> "dict", word |-> w, conf |-> c]

\* a final record: text that is not JSON, JSON that is no object, an object
InvalidJson == [ty |-> "invalid"]

JsonList == [ty |-> "list"]

FinalDict(result) == [ty |-> "dict", result |-> result]

ResultList(items) == [ty |-> "list", items |-> items]

PartialDict(p) == [ty |-> "dict", partial |-> p]

\* the exception marker of a function body that raised
Raised == [raised |-> TRUE]

-----------------------------------------------------------------------------
(* str operations *)

UpperChars ==
    <<"A","B","C","D","E","F","G","H","I","J","K","L","M",
      "N","O","P","Q","R","S","T","U","V","W","X","Y","Z">>

LowerChars ==
    <<"a","b","c","d","e","f","g","h","i","j","k","l","m",
      "n","o","p","q","r","s","t","u","v","w","x","y","z">>

LowerChar(c) ==
    IF \E i \in DOMAIN UpperChars : UpperChars[i] = c
    THEN LowerChars[CHOOSE i \in DOMAIN UpperChars : UpperChars[i] = c]
    ELSE c

RECURSIVE str_lower(_)
\* str.lower()
str_lower(s) ==
    IF Len(s) = 0 THEN ""
    ELSE LowerChar(SubSeq(s, 1, 1)) \o str_lower(SubSeq(s, 2, Len(s)))

IsSpace(c) == c \in {" ", "\t", "\n", "\r"}

\* bool(s.strip()): some character of s is not white space
str_strip_nonempty(s) == \E i \in 1..Len(s) : ~IsSpace(SubSeq(s, i, i))

RECURSIVE str_join(_, _)
\* sep.join(strs), strs a sequence of strings
str_join(sep, strs) ==
    IF strs = <<>> THEN ""
    ELSE IF Len(strs) = 1 THEN strs[1]
    ELSE strs[1] \o sep \o str_join(sep, Tail(strs))

\* d.get(key, default), v the value under the key or Absent
DictGet(v, default) == IF v.ty = "absent" THEN default ELSE v

\* bool(v)
Truthy(v) ==
    CASE v.ty = "str" -> v.s # ""
      [] v.ty = "NoneType" -> FALSE
      [] v.ty = "int" -> v.s # "0"
      [] v.ty = "float" -> v.n # 0
      [] OTHER -> TRUE

-----------------------------------------------------------------------------
(* parse_vosk_json *)

\* f"[garbled:{w}]"
GarbledTag(w) == PyStr("[garbled:" \o w.s \o "]")

\* a test that also tags a confidence equal to the threshold
IsGarbledInclusive(conf) == conf.n <= GARBLED_CONFIDENCE_THRESHOLD

\* conf < GARBLED_CONFIDENCE_THRESHOLD
IsGarbled(conf) == conf.n < GARBLED_CONFIDENCE_THRESHOLD

RECURSIVE ParseItems(_, _, _)
\* the loop over data["result"]; a non-dict item has no .get, a conf that
\* is no number cannot be compared with a float
ParseItems(items, display_words, plain_words) ==
    IF items = <<>>
    THEN [raised |-> FALSE, display_words |-> display_words,
          plain_words |-> plain_words]
    ELSE LET item == Head(items) IN
         IF item.ty # "dict" THEN Raised
         ELSE LET w == DictGet(item.word, PyStr(""))
                  conf == DictGet(item.conf, PyFloat(10))
              IN  IF conf.ty \notin {"float", "int"} THEN Raised
                  ELSE ParseItems(Tail(items),
                           Append(display_words,
                                  IF IsGarbled(conf) THEN GarbledTag(w) ELSE w),
                           Append(plain_words, w))

\* the body of the try block
ParseVoskBody(json_str) ==
    IF json_str.ty # "dict" THEN Raised
    ELSE LET r == IF json_str.result.ty = "absent"
                  THEN [raised |-> FALSE, display_words |-> <<>>,
                        plain_words |-> <<>>]
                  ELSE IF json_str.result.ty # "list" THEN Raised
                  ELSE ParseItems(json_str.result.items, <<>>, <<>>)
         IN  IF r.raised THEN Raised
             ELSE IF \E i \in DOMAIN r.display_words :
                         r.display_words[i].ty # "str"
             THEN Raised
             ELSE [raised |-> FALSE,
                   display_text |->
                       str_join(" ", [i \in DOMAIN r.display_words |->
                                          r.display_words[i].s]),
                   display_words |-> r.display_words,
                   plain_words |-> r.plain_words]

\* a parser whose exceptions reach the caller
ExceptMissing(r) == r

\* the bare except: return "", [], []
ExceptEmpty(r) ==
    IF r.raised
    THEN [raised |-> FALSE, display_text |-> "", display_words |-> <<>>,
          plain_words |-> <<>>]
    ELSE r

parse_vosk_json(json_str) == ExceptEmpty(ParseVoskBody(json_str))

(* parse_partial_json *)

ParsePartialBody(json_str) ==
    IF json_str.ty # "dict" THEN Raised
    ELSE [raised |-> FALSE, value |-> DictGet(json_str.partial, PyStr(""))]

parse_partial_json(json_str) ==
    LET r == ParsePartialBody(json_str)
    IN  IF r.raised THEN PyStr("") ELSE r.value

-----------------------------------------------------------------------------
(* analyze_stammering_and_articulation *)

\* the comparison without lower()
SameWordCased(a, b) == a.s = b.s

\* words[i].lower() == words[i-1].lower()
SameWord(a, b) == str_lower(a.s) = str_lower(b.s)

RECURSIVE CountRepeats(_, _, _)
\* the loop: i runs over range(1, len(words)), here 2..Len(words)
CountRepeats(words, i, stammer_count) ==
    IF i > Len(words) THEN [raised |-> FALSE, stammer_count |-> stammer_count]
    ELSE IF words[i].ty # "str" \/ words[i-1].ty # "str" THEN Raised
    ELSE CountRepeats(words, i + 1,
             IF SameWord(words[i], words[i-1])
             THEN stammer_count + 1 ELSE stammer_count)

analyze_stammering_and_articulation(words) ==
    LET c == CountRepeats(words, 2, 0)
    IN  IF c.raised THEN Raised
        ELSE [raised |-> FALSE,
              stammer_alert |-> c.stammer_count >= STAMMER_REPEAT_THRESHOLD,
              stammer_count |-> c.stammer_count,
              articulation_alert |-> Len(words) = 0]

-----------------------------------------------------------------------------
(* compute_rolling_wpm *)

\* an eviction test that also drops an entry exactly one window old
IsOldInclusive(entry, current_time) ==
    current_time - entry[2] >= ROLLING_WINDOW_SIZE

\* (current_time - word_timestamp_deque[0][1]) > ROLLING_WINDOW_SIZE
IsOld(entry, current_time) == current_time - entry[2] > ROLLING_WINDOW_SIZE

\* an eviction that pops at most one entry per call
EvictOnce(deque, current_time) ==
    IF deque # <<>> /\ IsOld(Head(deque), current_time)
    THEN Tail(deque)
    ELSE deque

RECURSIVE Evict(_, _)
\* while deque and old(deque[0]): deque.popleft()
Evict(deque, current_time) ==
    IF deque # <<>> /\ IsOld(Head(deque), current_time)
    THEN Evict(Tail(deque), current_time)
    ELSE deque

\* (num_words / ROLLING_WINDOW_SIZE) * 60
WordsPerMinute(num_words) == (num_words * 60) \div ROLLING_WINDOW_SIZE

\* the deque the call leaves and the value it returns
compute_rolling_wpm(deque, current_time) ==
    LET kept == Evict(deque, current_time)
    IN  [deque |-> kept, wpm |-> WordsPerMinute(Len(kept))]

-----------------------------------------------------------------------------
(* The recogniser's outputs *)

\* rec.Result() of an utterance with words "cat" (0.9) and "dog" (0.3)
CatDog ==
    FinalDict(ResultList(<<Item(PyStr("cat"), PyFloat(9)),
                           Item(PyStr("dog"), PyFloat(3))>>))

\* rec.Result() of silence: {"text": ""}
NoResult == FinalDict(Absent)

\* rec.Result() with one word that is the empty string
EmptyWord == FinalDict(ResultList(<<Item(PyStr(""), Absent)>>))

\* rec.Result() records that are JSON but not of the expected shape: no
\* object, a "result" that is no list, an item that is no object, a conf
\* or a word that is null
Malformed ==
    {JsonList,
     FinalDict(PyFloat(7)),
     FinalDict(ResultList(<<PyInt("5")>>)),
     FinalDict(ResultList(<<Item(PyStr("cat"), PyNone)>>)),
     FinalDict(ResultList(<<Item(PyNone, Absent)>>))}

\* rec.Result() of "the The the": two repeats ignoring case
Stammer3 ==
    FinalDict(ResultList(<<Item(PyStr("the"), Absent), Item(PyStr("The"), Absent),
                           Item(PyStr("the"), Absent)>>))

\* rec.Result() of n words "a b a b ...", no word repeated
Words(n) ==
    FinalDict(ResultList([i \in 1..n |->
        Item(PyStr(IF i % 2 = 1 THEN "a" ELSE "b"), Absent)]))

\* rec.Result() whose first word is the number 5, with confidence 0.3
NumberWord ==
    FinalDict(ResultList(<<Item(PyInt("5"), PyFloat(3)),
                           Item(PyStr("cat"), PyFloat(9))>>))

\* the records of a run that exercises the alerts: 30 words in the window
\* are 180 words per minute, 33 are 198
AlertRecords == {Stammer3, Words(30), NumberWord}

\* what rec.Result() returns
FinalRecords ==
    IF rec = "alerts" THEN AlertRecords
    ELSE {InvalidJson, NoResult, EmptyWord, CatDog} \cup Malformed

\* what rec.PartialResult() returns
PartialRecords ==
    IF rec = "alerts" THEN {PartialDict(PyStr("he"))}
    ELSE {InvalidJson, JsonList, PartialDict(Absent), PartialDict(PyStr("")),
          PartialDict(PyStr("he")), PartialDict(PyStr("hel"))}

-----------------------------------------------------------------------------
(* audio_queue: queue.Queue() *)

\* put never waits: the queue has no maxsize
QueuePut(q, frame) == Append(q, frame)

\* a get that returns the newest frame
QueueGetNewest(q) == [frame |-> q[Len(q)], rest |-> SubSeq(q, 1, Len(q) - 1)]

\* get returns the oldest frame and removes it
QueueGet(q) == [frame |-> Head(q), rest |-> Tail(q)]

-----------------------------------------------------------------------------
(* The state after main() has started both threads *)

NoLocals ==
    [display_text |-> "", plain_words |-> <<>>, now |-> 0,
     stammer_alert |-> FALSE, stammer_count |-> 0,
     articulation_alert |-> FALSE, current_time |-> 0, wpm |-> 0]

NoCall == [fn |-> "none"]

InitProgram ==
    /\ running = TRUE
    /\ audio_queue = <<>>
    /\ word_timestamp_deque = <<>>
    /\ clock = 0
    /\ capPc = "open"
    /\ frames_read = 0
    /\ stream_open = FALSE
    /\ recPc = "start"
    /\ data = 0
    /\ partial_text_accumulator = PyStr("")
    /\ locals = NoLocals
    /\ sink = <<>>
    /\ main_exited = FALSE
    /\ pushed = <<>>
    /\ delivered = <<>>
    /\ recorded = <<>>
    /\ partials_seen = <<>>
    /\ last_fed = [kind |-> "none"]

Init ==
    /\ InitProgram
    /\ model_exists \in BOOLEAN
    /\ rec = "plain"
    /\ call = NoCall

\* a run whose recogniser returns AlertRecords
InitAlerts ==
    /\ InitProgram
    /\ model_exists = TRUE
    /\ rec = "alerts"
    /\ call = NoCall

-----------------------------------------------------------------------------
(* time.time() *)

Tick ==
    /\ ~main_exited
    /\ clock < MaxTicks * TickSeconds
    /\ clock' = clock + TickSeconds
    /\ UNCHANGED <<running, audio_queue, word_timestamp_deque, model_exists, rec,
                   capPc, frames_read, stream_open, recPc, data,
                   partial_text_accumulator, locals, sink, main_exited,
                   pushed, delivered, recorded, partials_seen, last_fed, call>>

-----------------------------------------------------------------------------
(* audio_capture_thread *)

notCapture ==
    <<running, word_timestamp_deque, clock, model_exists, rec, recPc, data,
      partial_text_accumulator, locals, sink, main_exited, delivered,
      recorded, partials_seen, last_fed, call>>

\* p.open(...)
CaptureOpen ==
    /\ capPc = "open"
    /\ stream_open' = TRUE
    /\ capPc' = "loop"
    /\ UNCHANGED <<frames_read, audio_queue, pushed>>
    /\ UNCHANGED notCapture

\* while running: true
CaptureLoop ==
    /\ capPc = "loop"
    /\ running
    /\ frames_read < MaxFrames
    /\ capPc' = "read"
    /\ UNCHANGED <<frames_read, stream_open, audio_queue, pushed>>
    /\ UNCHANGED notCapture

\* a capture step that also drops the stale entries of the deque
CaptureReadPutTrim ==
    /\ capPc = "read"
    /\ frames_read' = frames_read + 1
    /\ audio_queue' = QueuePut(audio_queue, frames_read + 1)
    /\ pushed' = Append(pushed, frames_read + 1)
    /\ capPc' = "loop"
    /\ word_timestamp_deque' = Evict(word_timestamp_deque, clock)
    /\ UNCHANGED <<stream_open, running, clock, model_exists, rec, recPc, data,
                   partial_text_accumulator, locals, sink, main_exited,
                   delivered, recorded, partials_seen, last_fed, call>>

\* data = stream.read(...); audio_queue.put(data)
CaptureReadPut ==
    /\ capPc = "read"
    /\ frames_read' = frames_read + 1
    /\ audio_queue' = QueuePut(audio_queue, frames_read + 1)
    /\ pushed' = Append(pushed, frames_read + 1)
    /\ capPc' = "loop"
    /\ UNCHANGED stream_open
    /\ UNCHANGED notCapture

\* while running: false; stream.stop_stream(); stream.close(); p.terminate()
CaptureExit ==
    /\ capPc = "loop"
    /\ ~running
    /\ stream_open' = FALSE
    /\ capPc' = "done"
    /\ UNCHANGED <<frames_read, audio_queue, pushed>>
    /\ UNCHANGED notCapture

-----------------------------------------------------------------------------
(* recognition_thread *)

\* what the recognition thread never touches
notRecognition ==
    <<running, clock, model_exists, rec, capPc, frames_read, stream_open,
      main_exited, pushed, call>>

\* one call of gui_callback
SinkCall(kind, text, wpm, alerts) ==
    [kind |-> kind, text |-> text, wpm |-> wpm, alerts |-> alerts,
     alert |-> alerts # <<>>]

\* gui_callback("[ERROR] ...", alert=True)
ErrorCall ==
    [kind |-> "error", text |-> "[ERROR] Vosk model path not found.",
     wpm |-> 0, alerts |-> <<>>, alert |-> TRUE]

\* a test that never finds the model missing
ModelNeverMissing(exists) == FALSE

\* if not os.path.exists(MODEL_PATH)
ModelMissing(exists) == ~exists

\* if not os.path.exists(MODEL_PATH): report and return; else build the
\* recogniser
RecStart ==
    /\ recPc = "start"
    /\ IF ModelMissing(model_exists)
       THEN recPc' = "done" /\ sink' = Append(sink, ErrorCall)
       ELSE recPc' = "loop" /\ sink' = sink
    /\ UNCHANGED <<audio_queue, word_timestamp_deque, data,
                   partial_text_accumulator, locals, delivered, recorded,
                   partials_seen, last_fed>>
    /\ UNCHANGED notRecognition

\* while running
RecLoop ==
    /\ recPc = "loop"
    /\ recPc' = IF running THEN "get" ELSE "done"
    /\ UNCHANGED <<audio_queue, word_timestamp_deque, data,
                   partial_text_accumulator, locals, sink, delivered,
                   recorded, partials_seen, last_fed>>
    /\ UNCHANGED notRecognition

\* data = audio_queue.get(timeout=1), a frame being there
RecGet ==
    /\ recPc = "get"
    /\ audio_queue # <<>>
    /\ data' = QueueGet(audio_queue).frame
    /\ audio_queue' = QueueGet(audio_queue).rest
    /\ recPc' = "feed"
    /\ last_fed' = [kind |-> "none"]
    /\ UNCHANGED <<word_timestamp_deque, partial_text_accumulator, locals,
                   sink, delivered, recorded, partials_seen>>
    /\ UNCHANGED notRecognition

\* except queue.Empty: continue
RecTimeout ==
    /\ recPc = "get"
    /\ audio_queue = <<>>
    /\ recPc' = "loop"
    /\ UNCHANGED <<audio_queue, word_timestamp_deque, data,
                   partial_text_accumulator, locals, sink, delivered,
                   recorded, partials_seen, last_fed>>
    /\ UNCHANGED notRecognition

\* a gate that lets every utterance through
GateOpen(display_text) == TRUE

\* if display_text.strip()
Gate(display_text) == str_strip_nonempty(display_text)

\* a recording that puts the words at the front (appendleft of the list)
RecordWordsFront(deque, plain_words, now) ==
    [i \in 1..Len(plain_words) |-> <<plain_words[i], now>>] \o deque

\* for w in plain_words: word_timestamp_deque.append((w, now))
RecordWords(deque, plain_words, now) ==
    deque \o [i \in 1..Len(plain_words) |-> <<plain_words[i], now>>]

\* rec.AcceptWaveform(data) true: parse rec.Result(); behind the gate, record
\* the words at time.time() and analyse them
RecFinal ==
    /\ recPc = "feed"
    /\ \E r \in FinalRecords :
         LET p == parse_vosk_json(r) IN
         /\ last_fed' = [kind |-> "final", rec |-> r]
         /\ delivered' = Append(delivered, data)
         /\ IF p.raised
            THEN /\ recPc' = "crashed"
                 /\ UNCHANGED <<word_timestamp_deque, recorded, locals>>
            ELSE IF Gate(p.display_text)
            THEN LET now == clock
                     a == analyze_stammering_and_articulation(p.plain_words)
                 IN  /\ word_timestamp_deque' =
                            RecordWords(word_timestamp_deque, p.plain_words, now)
                     /\ recorded' = RecordWords(recorded, p.plain_words, now)
                     /\ IF a.raised
                        THEN /\ recPc' = "crashed"
                             /\ locals' = [locals EXCEPT
                                    !.display_text = p.display_text,
                                    !.plain_words = p.plain_words,
                                    !.now = now]
                        ELSE /\ recPc' = "wpm"
                             /\ locals' = [locals EXCEPT
                                    !.display_text = p.display_text,
                                    !.plain_words = p.plain_words,
                                    !.now = now,
                                    !.stammer_alert = a.stammer_alert,
                                    !.stammer_count = a.stammer_count,
                                    !.articulation_alert = a.articulation_alert]
            ELSE /\ recPc' = "loop"
                 /\ locals' = [locals EXCEPT
                        !.display_text = p.display_text,
                        !.plain_words = p.plain_words]
                 /\ UNCHANGED <<word_timestamp_deque, recorded>>
    /\ UNCHANGED <<audio_queue, data, partial_text_accumulator, sink,
                   partials_seen>>
    /\ UNCHANGED notRecognition

\* wpm = compute_rolling_wpm(), at time.time()
RecWpm ==
    /\ recPc = "wpm"
    /\ LET c == compute_rolling_wpm(word_timestamp_deque, clock)
       IN  /\ word_timestamp_deque' = c.deque
           /\ locals' = [locals EXCEPT !.current_time = clock, !.wpm = c.wpm]
    /\ recPc' = "emit"
    /\ UNCHANGED <<audio_queue, data, partial_text_accumulator, sink,
                   delivered, recorded, partials_seen, last_fed>>
    /\ UNCHANGED notRecognition

\* a threshold that 180 words per minute already exceed
TooFastInclusive(wpm) == wpm >= WORDS_PER_MINUTE_THRESHOLD

\* if wpm > WORDS_PER_MINUTE_THRESHOLD
TooFast(wpm) == wpm > WORDS_PER_MINUTE_THRESHOLD

\* the alert lines, in the order the code appends them
AlertMessages(l) ==
    (IF TooFast(l.wpm) THEN <<"fast">> ELSE <<>>)
    \o (IF l.stammer_alert THEN <<"stammer">> ELSE <<>>)
    \o (IF l.articulation_alert THEN <<"articulation">> ELSE <<>>)

\* an emission that also forgets the last partial text
RecEmitReset ==
    /\ recPc = "emit"
    /\ sink' = Append(sink, SinkCall("final", locals.display_text, locals.wpm,
                                     AlertMessages(locals)))
    /\ partial_text_accumulator' = PyStr("")
    /\ recPc' = "loop"
    /\ UNCHANGED <<audio_queue, word_timestamp_deque, data, locals, delivered,
                   recorded, partials_seen, last_fed>>
    /\ UNCHANGED notRecognition

\* compose the message; gui_callback(message, alert=bool(alert_messages))
RecEmit ==
    /\ recPc = "emit"
    /\ sink' = Append(sink, SinkCall("final", locals.display_text, locals.wpm,
                                     AlertMessages(locals)))
    /\ recPc' = "loop"
    /\ UNCHANGED <<audio_queue, word_timestamp_deque, data,
                   partial_text_accumulator, locals, delivered, recorded,
                   partials_seen, last_fed>>
    /\ UNCHANGED notRecognition

\* a partial reported with the alert flag set
PartialCallFlagged(partial_text) ==
    [kind |-> "partial", text |-> partial_text.s, wpm |-> 0, alerts |-> <<>>,
     alert |-> TRUE]

\* gui_callback(f"[Partial] {partial_text}", alert=False)
PartialCall(partial_text) ==
    [kind |-> "partial", text |-> partial_text.s, wpm |-> 0, alerts |-> <<>>,
     alert |-> FALSE]

\* a test that lets a repeated partial through
IsNonEmptyPartial(partial_text, accumulator) == Truthy(partial_text)

\* if partial_text and partial_text != partial_text_accumulator
IsNewPartial(partial_text, accumulator) ==
    Truthy(partial_text) /\ partial_text # accumulator

\* rec.AcceptWaveform(data) false: parse rec.PartialResult(); report a new,
\* non-empty partial text and remember it
RecPartial ==
    /\ recPc = "feed"
    /\ \E r \in PartialRecords :
         LET partial_text == parse_partial_json(r) IN
         /\ last_fed' = [kind |-> "partial", rec |-> r]
         /\ delivered' = Append(delivered, data)
         /\ partials_seen' = Append(partials_seen, partial_text)
         /\ IF IsNewPartial(partial_text, partial_text_accumulator)
            THEN /\ partial_text_accumulator' = partial_text
                 /\ sink' = Append(sink, PartialCall(partial_text))
            ELSE UNCHANGED <<partial_text_accumulator, sink>>
    /\ recPc' = "loop"
    /\ UNCHANGED <<audio_queue, word_timestamp_deque, data, locals, recorded>>
    /\ UNCHANGED notRecognition

-----------------------------------------------------------------------------
(* SpeechMonitorGUI.on_close and main *)

\* a close handler that flips the flag whatever it was
OnCloseToggle ==
    /\ ~main_exited
    /\ running' = ~running
    /\ UNCHANGED <<audio_queue, word_timestamp_deque, clock, model_exists, rec,
                   capPc, frames_read, stream_open, recPc, data,
                   partial_text_accumulator, locals, sink, main_exited,
                   pushed, delivered, recorded, partials_seen, last_fed, call>>

\* running = False; self.root.quit(); self.root.destroy()
OnClose ==
    /\ running
    /\ ~main_exited
    /\ running' = FALSE
    /\ UNCHANGED <<audio_queue, word_timestamp_deque, clock, model_exists, rec,
                   capPc, frames_read, stream_open, recPc, data,
                   partial_text_accumulator, locals, sink, main_exited,
                   pushed, delivered, recorded, partials_seen, last_fed, call>>

\* a thread started with daemon=True stops where it is when main() returns
AtExit(pc) == IF pc \in {"done", "crashed"} THEN pc ELSE "killed"

\* gui.run() returns after root.quit(); main() returns and the interpreter
\* ends without joining the daemon threads
MainExit ==
    /\ ~running
    /\ ~main_exited
    /\ main_exited' = TRUE
    /\ capPc' = AtExit(capPc)
    /\ recPc' = AtExit(recPc)
    /\ UNCHANGED <<running, audio_queue, word_timestamp_deque, clock,
                   model_exists, rec, frames_read, stream_open, data,
                   partial_text_accumulator, locals, sink, pushed, delivered,
                   recorded, partials_seen, last_fed, call>>

-----------------------------------------------------------------------------

Next ==
    \/ Tick
    \/ CaptureOpen
    \/ CaptureLoop
    \/ CaptureReadPut
    \/ CaptureExit
    \/ RecStart
    \/ RecLoop
    \/ RecGet
    \/ RecTimeout
    \/ RecFinal
    \/ RecWpm
    \/ RecEmit
    \/ RecPartial
    \/ OnClose
    \/ MainExit

Spec == Init /\ [][Next]_vars

SpecAlerts == InitAlerts /\ [][Next]_vars

-----------------------------------------------------------------------------
(* Fair scheduling: each thread that can take a step eventually takes one,  *)
(* and main() returns once the window is closed.                           *)

CaptureStep == CaptureOpen \/ CaptureLoop \/ CaptureReadPut \/ CaptureExit

RecognitionStep ==
    RecStart \/ RecLoop \/ RecGet \/ RecTimeout \/ RecFinal \/ RecWpm
    \/ RecEmit \/ RecPartial

SpecLive ==
    /\ Init
    /\ [][Next]_vars
    /\ WF_vars(CaptureStep)
    /\ WF_vars(RecognitionStep)
    /\ WF_vars(MainExit)

-----------------------------------------------------------------------------
(* The utility functions alone: one call, its argument drawn from a         *)
(* bounded set of values.                                                  *)

\* sequences over S of length at most n
SeqsUpTo(S, n) == UNION {[1..k -> S] : k \in 0..n}

WordValues ==
    {PyStr("the"), PyStr("The"), PyStr("cat"), PyStr("sat"), PyInt("5")}

ItemValues ==
    {PyInt("5")}
    \cup {Item(w, c) : w \in {Absent, PyStr("cat"), PyStr("dog"), PyInt("5"),
                              PyNone},
                       c \in {Absent, PyFloat(3), PyFloat(6), PyFloat(9),
                              PyNone}}

FinalInputs ==
    {InvalidJson, JsonList, FinalDict(Absent), FinalDict(PyFloat(7))}
    \cup {FinalDict(ResultList(items)) : items \in SeqsUpTo(ItemValues, MaxItems)}

PartialInputs ==
    {InvalidJson, JsonList, PartialDict(Absent), PartialDict(PyStr("")),
     PartialDict(PyStr("he")), PartialDict(PyNone), PartialDict(PyInt("5"))}

Pending(fn, arg) == [fn |-> fn, arg |-> arg, returned |-> FALSE, ret |-> Absent]

InitFn ==
    /\ InitProgram
    /\ model_exists = TRUE
    /\ rec = "plain"
    /\ call \in {Pending("parse_vosk_json", r) : r \in FinalInputs}
           \cup {Pending("parse_partial_json", r) : r \in PartialInputs}
           \cup {Pending("analyze_stammering_and_articulation", ws) :
                     ws \in SeqsUpTo(WordValues, MaxWords)}

programVars ==
    <<running, audio_queue, word_timestamp_deque, clock, model_exists, rec,
      capPc, frames_read, stream_open, recPc, data,
      partial_text_accumulator, locals, sink, main_exited,
      pushed, delivered, recorded, partials_seen, last_fed>>

CallParseVosk ==
    /\ call.fn = "parse_vosk_json"
    /\ ~call.returned
    /\ call' = [call EXCEPT !.returned = TRUE,
                            !.ret = parse_vosk_json(call.arg)]
    /\ UNCHANGED programVars

CallParsePartial ==
    /\ call.fn = "parse_partial_json"
    /\ ~call.returned
    /\ call' = [call EXCEPT !.returned = TRUE,
                            !.ret = parse_partial_json(call.arg)]
    /\ UNCHANGED programVars

CallAnalyze ==
    /\ call.fn = "analyze_stammering_and_articulation"
    /\ ~call.returned
    /\ call' = [call EXCEPT !.returned = TRUE,
                            !.ret = analyze_stammering_and_articulation(call.arg)]
    /\ UNCHANGED programVars

NextFn == CallParseVosk \/ CallParsePartial \/ CallAnalyze

SpecFn == InitFn /\ [][NextFn]_vars

-----------------------------------------------------------------------------
(* Properties *)

\* the entry is inside the window of the last rate computation
InWindow(entry) == locals.current_time - entry[2] <= ROLLING_WINDOW_SIZE

\* C1 (window correctness): when compute_rolling_wpm has returned, the value
\* is (number of entries ever recorded whose age at the query time is at
\* most the window) / window * 60, the deque holds exactly those entries in
\* order, and an empty deque gives 0.
C1_WindowCorrectness ==
    recPc = "emit" =>
        /\ word_timestamp_deque = SelectSeq(recorded, InWindow)
        /\ locals.wpm =
               (Cardinality({i \in DOMAIN recorded : InWindow(recorded[i])}) * 60)
                   \div ROLLING_WINDOW_SIZE
        /\ (word_timestamp_deque = <<>> => locals.wpm = 0)

\* a rate computation that evicted some entries and kept one that is exactly
\* one window old
C1_Witness ==
    /\ recPc = "emit"
    /\ word_timestamp_deque # <<>>
    /\ Len(word_timestamp_deque) < Len(recorded)
    /\ locals.current_time - word_timestamp_deque[1][2] = ROLLING_WINDOW_SIZE

\* C2 (shutdown silence): once running is false, no step of the recognition
\* thread's loop calls gui_callback, wherever in the loop the thread is.
C2_ShutdownSilence == [][(~running /\ recPc # "start") => sink' = sink]_vars

\* the texts of the partial calls made so far
PartialCalls ==
    LET calls == SelectSeq(sink, LAMBDA c : c.kind = "partial")
    IN  [i \in DOMAIN calls |-> calls[i].text]

RECURSIVE ExpectedPartials(_, _)
\* the texts to report for the partial texts `seen`, the last reported text
\* being `last`: each text that is not empty and differs from `last`
ExpectedPartials(seen, last) ==
    IF seen = <<>> THEN <<>>
    ELSE IF Head(seen).s # "" /\ Head(seen).s # last
    THEN <<Head(seen).s>> \o ExpectedPartials(Tail(seen), Head(seen).s)
    ELSE ExpectedPartials(Tail(seen), last)

\* C3 (partial de-duplication): the partial calls are exactly the partial
\* texts that were non-empty and differed from the last reported one; no two
\* consecutive partial calls carry the same text; partials "he", "he", "hel"
\* give the two calls "he", "hel".
C3_PartialDedup ==
    /\ PartialCalls = ExpectedPartials(partials_seen, "")
    /\ \A i \in 1..(Len(PartialCalls) - 1) : PartialCalls[i] # PartialCalls[i+1]
    /\ partials_seen = <<PyStr("he"), PyStr("he"), PyStr("hel")>>
           => PartialCalls = <<"he", "hel">>

C3_Witness ==
    /\ partials_seen = <<PyStr("he"), PyStr("he"), PyStr("hel")>>
    /\ Len(sink) = 2
    /\ sink[1].text = "he"
    /\ sink[2].text = "hel"

\* C4 (frame queue handoff): the frames handed to the recogniser are a prefix
\* of the frames pushed, and a put is never refused.
C4_FifoHandoff ==
    /\ Len(delivered) <= Len(pushed)
    /\ delivered = SubSeq(pushed, 1, Len(delivered))
    /\ capPc = "read" => ENABLED CaptureReadPut

\* two frames delivered while the queue held more than one frame
C4_Witness ==
    /\ delivered = <<1, 2>>
    /\ Len(pushed) = 3
    /\ audio_queue = <<3>>

\* C5 (shutdown liveness): once running is false, the capture thread leaves
\* its loop and releases the stream, and the recognition thread ends.
C5_ShutdownLiveness ==
    (~running) ~> (/\ capPc = "done"
                   /\ ~stream_open
                   /\ recPc \in {"done", "crashed"})

\* the result of parsing the record the recogniser just returned
FedFinal == parse_vosk_json(last_fed'.rec)

\* C6 (non-empty-text gate): a final record whose display text is empty
\* causes no gui_callback call and leaves the deque and the last partial
\* text as they were.
C6_EmptyTextGate ==
    [][(recPc = "feed" /\ last_fed'.kind = "final" /\ ~FedFinal.raised
            /\ FedFinal.display_text = "")
        => /\ sink' = sink
           /\ word_timestamp_deque' = word_timestamp_deque
           /\ recorded' = recorded
           /\ partial_text_accumulator' = partial_text_accumulator
           /\ recPc' = "loop"]_vars

\* an utterance of one empty word was dropped, the deque and the last
\* partial text holding something
C6_Witness ==
    /\ recPc = "loop"
    /\ last_fed = [kind |-> "final", rec |-> EmptyWord]
    /\ locals.plain_words = <<PyStr("")>>
    /\ word_timestamp_deque # <<>>
    /\ partial_text_accumulator # PyStr("")

EmptyResult ==
    [raised |-> FALSE, display_text |-> "", display_words |-> <<>>,
     plain_words |-> <<>>]

\* C7 (fail-soft parsing): for every record the recogniser returns, the
\* parser returns a value; for a record its body cannot handle it returns
\* ("", [], []) (final) or "" (partial), and the thread makes no call and
\* goes on with its loop.
C7_FailSoftParsing ==
    [][(recPc = "feed" /\ last_fed'.kind # "none")
        => IF last_fed'.kind = "final"
           THEN /\ ~FedFinal.raised
                /\ ParseVoskBody(last_fed'.rec).raised
                       => /\ FedFinal = EmptyResult
                          /\ locals'.display_text = ""
                          /\ locals'.plain_words = <<>>
                          /\ sink' = sink
                          /\ recPc' = "loop"
           ELSE ParsePartialBody(last_fed'.rec).raised
                       => /\ parse_partial_json(last_fed'.rec) = PyStr("")
                          /\ partials_seen' = Append(partials_seen, PyStr(""))
                          /\ sink' = sink
                          /\ recPc' = "loop"]_vars

\* text that is not JSON was parsed as a final record and the thread is
\* back in its loop
C7_Witness ==
    /\ recPc = "loop"
    /\ last_fed = [kind |-> "final", rec |-> InvalidJson]
    /\ locals.display_text = ""
    /\ locals.plain_words = <<>>

\* the "result" list of a final record whose words are strings and whose
\* confidences are numbers or missing
WellTypedWords(r) ==
    /\ r.ty = "dict"
    /\ r.result.ty = "list"
    /\ \A i \in DOMAIN r.result.items :
           /\ r.result.items[i].ty = "dict"
           /\ r.result.items[i].word.ty = "str"
           /\ r.result.items[i].conf.ty \in {"float", "absent"}

\* the confidence of an item, 1.0 when it has none
ConfOf(item) == IF item.conf.ty = "absent" THEN 10 ELSE item.conf.n

RECURSIVE JoinedBySpaces(_)
\* the words, each but the first preceded by one space
JoinedBySpaces(ws) ==
    IF Len(ws) = 0 THEN ""
    ELSE IF Len(ws) = 1 THEN ws[1]
    ELSE JoinedBySpaces(SubSeq(ws, 1, Len(ws) - 1)) \o " " \o ws[Len(ws)]

\* C8 (garbled tagging): for a final record with word list W, plain_words is
\* the words of W in order; display_words has the same length and holds
\* "[garbled:<word>]" where the confidence is strictly below 0.6 (a missing
\* one counting as 1.0) and the word itself elsewhere; display_text is
\* display_words joined by single spaces.
C8_GarbledTagging ==
    (call.fn = "parse_vosk_json" /\ call.returned /\ WellTypedWords(call.arg))
    => LET W == call.arg.result.items
           ret == call.ret
       IN  /\ ~ret.raised
           /\ ret.plain_words = [i \in DOMAIN W |-> W[i].word]
           /\ Len(ret.display_words) = Len(W)
           /\ \A i \in DOMAIN W :
                  ret.display_words[i] =
                      IF ConfOf(W[i]) < 6
                      THEN PyStr("[garbled:" \o W[i].word.s \o "]")
                      ELSE W[i].word
           /\ ret.display_text =
                  JoinedBySpaces([i \in DOMAIN W |-> ret.display_words[i].s])
           /\ call.arg = CatDog
                  => /\ ret.display_text = "cat [garbled:dog]"
                     /\ ret.plain_words = <<PyStr("cat"), PyStr("dog")>>

C8_Witness ==
    /\ call.fn = "parse_vosk_json"
    /\ call.returned
    /\ call.arg = CatDog
    /\ call.ret.display_text = "cat [garbled:dog]"

\* C9 (repetition detection): for a list of words, stammer_count is the
\* number of positions whose word equals the one before it ignoring case,
\* stammer_alert is stammer_count >= 2, articulation_alert is "the list is
\* empty"; [the, the, cat, cat, sat] gives 2 and an alert.
C9_RepetitionDetection ==
    (/\ call.fn = "analyze_stammering_and_articulation"
     /\ call.returned
     /\ \A i \in DOMAIN call.arg : call.arg[i].ty = "str")
    => LET words == call.arg
           ret == call.ret
           repeats == {i \in 2..Len(words) :
                           str_lower(words[i].s) = str_lower(words[i-1].s)}
       IN  /\ ~ret.raised
           /\ ret.stammer_count = Cardinality(repeats)
           /\ ret.stammer_alert = (Cardinality(repeats) >= 2)
           /\ ret.articulation_alert = (Len(words) = 0)
           /\ words = <<PyStr("the"), PyStr("the"), PyStr("cat"), PyStr("cat"),
                        PyStr("sat")>>
                  => ret.stammer_count = 2 /\ ret.stammer_alert

C9_Witness ==
    /\ call.fn = "analyze_stammering_and_articulation"
    /\ call.returned
    /\ call.arg = <<PyStr("the"), PyStr("the"), PyStr("cat"), PyStr("cat"),
                    PyStr("sat")>>
    /\ call.ret.stammer_count = 2
    /\ call.ret.stammer_alert

-----------------------------------------------------------------------------
(* C11 *)

HasLine(c, line) == \E i \in 1..Len(c.alerts) : c.alerts[i] = line

\* the step that emits the message of a finalized utterance
EmitStep == recPc = "emit" /\ recPc' = "loop"

\* C11: the message emitted for a finalized utterance carries the FastSpeech
\* line iff the rolling WPM computed for it is strictly above 180, which is
\* iff more than 30 words are in the window; it carries the Stammer line iff
\* stammer_alert holds; and the alert flag passed to the sink is true iff at
\* least one alert line is present.
C11_AlertComposition ==
    [][EmitStep =>
        /\ Len(sink') = Len(sink) + 1
        /\ LET c == sink'[Len(sink')] IN
            /\ c.kind = "final"
            /\ c.wpm = locals.wpm
            /\ HasLine(c, "fast") <=> locals.wpm > 180
            /\ locals.wpm > 180 <=> Len(word_timestamp_deque) > 30
            /\ HasLine(c, "stammer") <=> locals.stammer_alert
            /\ c.alert <=> c.alerts # <<>>]_vars

\* both alerts at once: "the The the" heard while 30 words are in the window
C11_Witness ==
    \E i \in 1..Len(sink) :
        /\ sink[i].kind = "final"
        /\ sink[i].wpm = 198
        /\ sink[i].alerts = <<"fast", "stammer">>
        /\ sink[i].alert

-----------------------------------------------------------------------------
(* C12 *)

\* C12: when the model is missing at the start of the recognition thread, the
\* thread makes exactly one sink call, with the alert flag true, and ends
\* without entering its loop or popping a frame; nothing else reaches the sink.
C12_StartupFailure ==
    ~model_exists =>
        /\ recPc \in {"start", "done", "killed"}
        /\ data = 0
        /\ delivered = <<>>
        /\ audio_queue = pushed
        /\ recPc \in {"start", "killed"} => sink = <<>>
        /\ recPc = "done" => sink = <<ErrorCall>> /\ sink[1].alert

\* the thread has ended after its one call while frames wait in the queue
C12_Witness ==
    /\ ~model_exists
    /\ running
    /\ recPc = "done"
    /\ Len(sink) = 1
    /\ sink[1].kind = "error"
    /\ Len(audio_queue) >= 2

-----------------------------------------------------------------------------
(* C13 *)

\* the step that handles a partial result
PartialStep == recPc = "feed" /\ last_fed'.kind = "partial"

\* C13: a sink call made for a partial result has the alert flag false and no
\* alert line; alert lines appear only in calls of the final branch; and the
\* step that handles a partial result leaves the deque as it was.
C13_NoAlertsOnPartials ==
    [][/\ PartialStep =>
            /\ word_timestamp_deque' = word_timestamp_deque
            /\ recorded' = recorded
            /\ \/ sink' = sink
               \/ /\ Len(sink') = Len(sink) + 1
                  /\ SubSeq(sink', 1, Len(sink)) = sink
                  /\ sink'[Len(sink')].kind = "partial"
                  /\ ~sink'[Len(sink')].alert
                  /\ sink'[Len(sink')].alerts = <<>>
       /\ \A i \in 1..Len(sink') :
            /\ sink'[i].kind = "partial" =>
                    ~sink'[i].alert /\ sink'[i].alerts = <<>>
            /\ sink'[i].alerts # <<>> => sink'[i].kind = "final"]_vars

\* a partial is reported, with no alert, after an utterance that raised one
C13_Witness ==
    \E i, j \in 1..Len(sink) :
        /\ i < j
        /\ sink[i].kind = "final"
        /\ sink[i].alert
        /\ sink[j].kind = "partial"
        /\ ~sink[j].alert
        /\ word_timestamp_deque # <<>>

-----------------------------------------------------------------------------
(* C14 *)

\* what the two worker threads write, and their positions
workerVars ==
    <<audio_queue, word_timestamp_deque, capPc, frames_read, stream_open,
      recPc, data, partial_text_accumulator, locals, sink, pushed, delivered,
      recorded, partials_seen, last_fed>>

\* C14: running is true in the initial state; a step that writes it is the
\* controller's stop and no step of the capture or recognition thread, and
\* sets it to false; once false it is false in every later state.
C14_RunningLifecycle ==
    /\ running = TRUE
    /\ [][/\ running' # running =>
                running /\ ~running' /\ UNCHANGED workerVars
          /\ ~running => ~running']_vars

\* the flag was cleared while both threads were in their loops, and both
\* have moved on since
C14_Witness ==
    /\ ~running
    /\ capPc = "done"
    /\ recPc = "done"
    /\ delivered # <<>>

-----------------------------------------------------------------------------
(* C15 *)

\* C15: while running is true, no record of the recogniser, whatever its
\* fields, and no timeout of the queue ends the recognition thread: it is
\* never stopped by an exception,
\* and the step that handles a record leads back to the loop (by way of the
\* rate and the message for a finalized utterance).
C15_WorkerResilience ==
    running =>
        /\ recPc # "crashed"
        /\ last_fed.kind # "none" => recPc \in {"loop", "get", "wpm", "emit"}

-----------------------------------------------------------------------------
(* C16 *)

\* a step of audio_capture_thread, of recognition_thread, of on_close
CaptureMoves == capPc' # capPc /\ main_exited' = main_exited
RecognitionMoves == recPc' # recPc /\ main_exited' = main_exited
ControllerMoves == running' # running

\* C16: word_timestamp_deque and partial_text_accumulator are written by
\* steps of the recognition thread only; of the shared objects a step of the
\* capture thread writes the queue alone, by a put, and the controller's step
\* writes running alone; no step is a step of two threads.
C16_SingleOwnership ==
    [][/\ (word_timestamp_deque' # word_timestamp_deque
           \/ partial_text_accumulator' # partial_text_accumulator)
          => RecognitionMoves /\ ~CaptureMoves /\ ~ControllerMoves
       /\ CaptureMoves =>
            /\ UNCHANGED <<running, word_timestamp_deque,
                           partial_text_accumulator, sink, recPc, locals, data>>
            /\ \/ audio_queue' = audio_queue
               \/ \E f \in 1..MaxFrames : audio_queue' = Append(audio_queue, f)
       /\ ControllerMoves =>
            UNCHANGED <<audio_queue, word_timestamp_deque,
                        partial_text_accumulator, sink, capPc, recPc>>
       /\ RecognitionMoves => capPc' = capPc /\ running' = running]_vars

\* each thread has written what it owns: a frame waits in the queue, words
\* are in the deque, a partial is remembered, and the flag is cleared
C16_Witness ==
    /\ ~running
    /\ audio_queue # <<>>
    /\ word_timestamp_deque # <<>>
    /\ partial_text_accumulator # PyStr("")

-----------------------------------------------------------------------------
(* C17 *)

\* timestamps never decrease from the front to the back
Sorted(deque) ==
    \A i, j \in 1..Len(deque) : i < j => deque[i][2] <= deque[j][2]

-----------------------------------------------------------------------------
(* C18 *)

\* C18: no call that reaches the sink carries the UnclearArticulation line:
\* wherever the rate is computed or the message composed, the display text
\* passed the gate, so plain_words is non-empty and articulation_alert false.
C18_NoArticulationAlert ==
    /\ \A i \in 1..Len(sink) : ~HasLine(sink[i], "articulation")
    /\ recPc \in {"wpm", "emit"} =>
            /\ Gate(locals.display_text)
            /\ locals.plain_words # <<>>
            /\ ~locals.articulation_alert

\* an utterance with no words came after one that was reported, and nothing
\* was sent for it
C18_Witness ==
    /\ recPc = "loop"
    /\ last_fed = [kind |-> "final", rec |-> NoResult]
    /\ locals.plain_words = <<>>
    /\ sink # <<>>
    /\ sink[Len(sink)].kind = "final"
    /\ sink[Len(sink)].alerts = <<>>

-----------------------------------------------------------------------------
(* C19 *)

\* the partial text the recogniser just returned
FedPartial == parse_partial_json(last_fed'.rec)

\* C19: partial_text_accumulator changes only in a step that reports a
\* partial, and then to the text reported: no finalized utterance, empty
\* partial or timeout resets it; and a partial text equal to it makes no call,
\* whatever was handled since it was set.
C19_LastPartialMemory ==
    [][/\ partial_text_accumulator' # partial_text_accumulator =>
            /\ PartialStep
            /\ partial_text_accumulator' = FedPartial
            /\ sink' = Append(sink, PartialCall(FedPartial))
       /\ (PartialStep /\ FedPartial = partial_text_accumulator) =>
            /\ sink' = sink
            /\ partial_text_accumulator' = partial_text_accumulator]_vars

\* partial "he", a finalized utterance that was reported, partial "he" again:
\* one partial call
C19_Witness ==
    /\ Len(delivered) = 3
    /\ partials_seen = <<PyStr("he"), PyStr("he")>>
    /\ last_fed = [kind |-> "partial", rec |-> PartialDict(PyStr("he"))]
    /\ Len(sink) = 2
    /\ sink[1] = PartialCall(PyStr("he"))
    /\ sink[2].kind = "final"
    /\ partial_text_accumulator = PyStr("he")

-----------------------------------------------------------------------------
(* C20 *)

\* the step that computes the rate of a finalized utterance
RateStep == recPc = "wpm" /\ recPc' = "emit"

\* the words of the utterance are the last entries of the deque
RecordedLast ==
    LET n == Len(locals.plain_words)
        len == Len(word_timestamp_deque)
    IN  /\ n <= len
        /\ \A i \in 1..n :
              word_timestamp_deque[len - n + i] =
                  <<locals.plain_words[i], locals.now>>

\* the rate that the words of the utterance make on their own
OwnRate == WordsPerMinute(Len(locals.plain_words))

\* a call is made only by the step that ends the handling of a frame (or by
\* the startup error), one call per step, and the handling of a frame starts
\* only by popping it
OneCallPerFrame ==
    /\ sink' # sink =>
            /\ sink' = Append(sink, sink'[Len(sink')])
            /\ recPc \in {"start", "feed", "emit"}
            /\ recPc' \in {"loop", "done"}
    /\ EmitStep => sink'[Len(sink')].wpm = locals.wpm
    /\ (recPc' = "feed" /\ recPc # "feed") =>
            recPc = "get" /\ audio_queue = <<data'>> \o audio_queue'
    /\ (recPc' = "wpm" /\ recPc # "wpm") => recPc = "feed"
    /\ (recPc' = "emit" /\ recPc # "emit") => recPc = "wpm"

\* C20 as stated: the words of the utterance are in the deque when the rate
\* is computed, so the rate reported for an utterance of n plain words is at
\* least n / 10 * 60 and above zero; and a popped frame causes at most one
\* sink call.
C20_RateCountsUtterance ==
    [][/\ RateStep =>
            /\ RecordedLast
            /\ locals'.wpm >= OwnRate
            /\ locals'.wpm > 0
       /\ OneCallPerFrame]_vars

\* C20 amended: the words of the utterance are in the deque when the rate is
\* computed; the rate is at least n / 10 * 60 and above zero when the time
\* read for the rate is at most 10 seconds after the time read for the
\* utterance, and at least zero otherwise; and a popped frame causes at most
\* one sink call.
C20_RateCountsFreshUtterance ==
    [][/\ RateStep =>
            /\ RecordedLast
            /\ locals'.wpm >= 0
            /\ locals'.current_time - locals.now <= ROLLING_WINDOW_SIZE =>
                    locals'.wpm >= OwnRate /\ locals'.wpm > 0
       /\ OneCallPerFrame]_vars

\* a message is about to be sent whose rate was read later than the time of
\* the utterance, within the window, and counts its two words
C20_Witness ==
    /\ recPc = "emit"
    /\ Len(locals.plain_words) = 2
    /\ locals.current_time > locals.now
    /\ locals.current_time - locals.now <= ROLLING_WINDOW_SIZE
    /\ locals.wpm >= OwnRate

=============================================================================
